---- MODULE Spec2Model ----
(***************************************************************************)
(* Scouting-entry record management: the verification manager              *)
(* (src/src/model/verification/vcmanager.py) and the entry manager         *)
(* (src/processor/entry_manager.py) over one persisted store.              *)
(*                                                                         *)
(* A pandas DataFrame is a sequence of row records; the field "index" of   *)
(* a row is its label (the row identity), the position in the sequence is  *)
(* what iloc addresses.  Python strings are TLA+ strings.                  *)
(*                                                                         *)
(* The library is the pandas the code is written for, 0.21 to 0.25, the    *)
(* versions that have both DataFrame.set_value and drop(index=).  The      *)
(* variable dtypes holds the dtype of the RawIndex column and of the Match *)
(* column of the edited table of the running manager; the Team column has  *)
(* the dtype of Match, the two are empty in the same rows.                 *)
(***************************************************************************)
EXTENDS Integers, Sequences, FiniteSets, TLC

VARIABLES db, session, raw_entries, edited_entries, original_data,
          edited_data, filtered_table, dtypes, op, ret

vars == <<db, session, raw_entries, edited_entries, original_data,
          edited_data, filtered_table, dtypes, op, ret>>

(***************************************************************************)
(* Bounds                                                                  *)
(***************************************************************************)
MaxRows == 2
MaxLines == 2
MaxQueryRows == 4

(***************************************************************************)
(* Values                                                                  *)
(***************************************************************************)
\* np.nan in a column of numbers (in RawIndex: no raw origin)
NaN == -1

\* None in a column of numbers: a NULL read back from the store into a
\* column of dtype object
None == -2

\* np.nan and None in a column of strings
NaNStr == "<nan>"
NoneStr == "<None>"

\* pd.isna of a cell of a column of numbers, of a column of strings
isna(n) == n \in {NaN, None}
isnastr(x) == x \in {NaNStr, NoneStr}

\* time.time() at the moment of a call
Now == 60

\* format_time.display_time: display form of a Unix timestamp
display_time(t) == "t" \o ToString(t)

\* boards.Finder: the boards of the board directory, by id
BoardNames == [i \in {1} |-> "Comp"]

\* boards.Finder.get_first().name()
get_first == BoardNames[1]

\* str(x) of an integer
str(n) == ToString(n)

\* str(x) of a cell of a column of numbers: a cell of a float64 column is a
\* float
cellstr(n, dtype) ==
    IF n = NaN THEN "nan"
    ELSE IF n = None THEN "None"
    ELSE IF dtype = "float64" THEN str(n) \o ".0"
    ELSE str(n)

\* str(x) of a cell of a column of strings
strcell(x) ==
    IF x = NaNStr THEN "nan" ELSE IF x = NoneStr THEN "None" ELSE x

\* a Python argument as supplied by a caller: an int or a str
PyInt(n) == [t |-> "int", i |-> n, s |-> ""]
PyStr(x) == [t |-> "str", i |-> 0, s |-> x]

\* the == of a str with a Python argument: a str never equals an int
StrEq(x, arg) == arg.t = "str" /\ arg.s = x

\* the == of an integer cell with a Python argument
IntEq(n, arg) == arg.t = "int" /\ arg.i = n

(***************************************************************************)
(* Strings                                                                 *)
(***************************************************************************)
Char(x, i) == SubSeq(x, i, i)

RECURSIVE split(_, _)
\* str.split(sep), sep one character
split(x, sep) ==
    IF \A i \in 1..Len(x) : Char(x, i) # sep
    THEN <<x>>
    ELSE LET p == CHOOSE i \in 1..Len(x) :
                      /\ Char(x, i) = sep
                      /\ \A j \in 1..(i - 1) : Char(x, j) # sep
         IN  <<SubSeq(x, 1, p - 1)>> \o split(SubSeq(x, p + 1, Len(x)), sep)

RECURSIVE join(_)
\* "".join(parts)
join(parts) ==
    IF parts = <<>> THEN "" ELSE Head(parts) \o join(Tail(parts))

\* parts[:-1]
DropLast(parts) == SubSeq(parts, 1, Len(parts) - 1)

Digits == "0123456789"
HexDigits == "0123456789abcdef"

IsIn(c, alphabet) == \E i \in 1..Len(alphabet) : Char(alphabet, i) = c
AllIn(x, alphabet) == \A i \in 1..Len(x) : IsIn(Char(x, i), alphabet)
ValueIn(c, alphabet) == (CHOOSE i \in 1..Len(alphabet) : Char(alphabet, i) = c) - 1

RECURSIVE int(_, _)
\* int(x) and int(x, 16): base is the length of the alphabet
int(x, alphabet) ==
    IF Len(x) = 0 THEN 0
    ELSE int(SubSeq(x, 1, Len(x) - 1), alphabet) * Len(alphabet)
         + ValueIn(Char(x, Len(x)), alphabet)

(***************************************************************************)
(* DataFrames                                                              *)
(***************************************************************************)
Positions(df) == 1..Len(df)
Labels(df) == {df[p].index : p \in Positions(df)}

\* df.loc[label]: the row labelled label
loc(df, label) == df[CHOOSE p \in Positions(df) : df[p].index = label]

\* df.iloc[i]: the row at 0-based position i
iloc(df, i) == df[i + 1]
InBounds(df, i) == i >= 0 /\ i < Len(df)

\* ignore_index=True / a fresh RangeIndex
RangeIndex(df) == [p \in Positions(df) |-> [df[p] EXCEPT !.index = p - 1]]

\* df[mask]
RECURSIVE Select(_, _)
Select(df, mask) ==
    IF df = <<>> THEN <<>>
    ELSE (IF mask[1] THEN <<Head(df)>> ELSE <<>>)
         \o Select(Tail(df), [p \in 1..(Len(df) - 1) |-> mask[p + 1]])

\* df.drop(index=label)
drop(df, label) == Select(df, [p \in Positions(df) |-> df[p].index # label])

\* the dtype read_sql gives a column of integers: object without a number
\* in it (no row, or NULL in every row), float64 with numbers and NULLs
sql_dtype(df, column) ==
    IF \A p \in Positions(df) : isna(df[p][column]) THEN "object"
    ELSE IF \A p \in Positions(df) : ~isna(df[p][column]) THEN "int64"
    ELSE "float64"

\* the dtypes of the edited table read_sql gives
sql_dtypes(df) ==
    [RawIndex |-> sql_dtype(df, "RawIndex"), Match |-> sql_dtype(df, "Match")]

\* a cell of a column of numbers as the store holds it (NULL for no value)
\* and as read_sql gives it back (nan in a float64 column, None in an
\* object column); a cell of a column of strings likewise
ToNull(n) == IF isna(n) THEN None ELSE n
FromNull(n, dtype) ==
    IF isna(n) THEN (IF dtype = "float64" THEN NaN ELSE None) ELSE n
ToNullStr(x) == IF isnastr(x) THEN NoneStr ELSE x

\* DataFrame.to_sql of the edited table: the rows of EDITED_ENTRIES
to_sql(df) ==
    [p \in Positions(df) |->
        [index     |-> df[p].index,
         RawIndex  |-> ToNull(df[p].RawIndex),
         Match     |-> ToNull(df[p].Match),
         Team      |-> ToNull(df[p].Team),
         Name      |-> ToNullStr(df[p].Name),
         StartTime |-> ToNullStr(df[p].StartTime),
         Board     |-> ToNullStr(df[p].Board),
         Data      |-> ToNullStr(df[p].Data),
         Comments  |-> ToNullStr(df[p].Comments),
         Edited    |-> ToNullStr(df[p].Edited)]]

\* pd.read_sql of EDITED_ENTRIES with index_col="index"
read_sql(rows) ==
    [p \in Positions(rows) |->
        [rows[p] EXCEPT
            !.RawIndex = FromNull(@, sql_dtype(rows, "RawIndex")),
            !.Match = FromNull(@, sql_dtype(rows, "Match")),
            !.Team = FromNull(@, sql_dtype(rows, "Team"))]]

\* the dtype of a column of pd.concat([edited, other]) from the dtypes of
\* its two parts; an object column of other is that of a frame without rows
concat_dtype(dtype, other) ==
    IF dtype = "int64" THEN other ELSE dtype

\* the dtype of the integer columns and of the index of a frame built from
\* rows of integers: int64, object without rows
frame_dtype(df) == IF df = <<>> THEN "object" ELSE "int64"

\* the dtypes of an empty pd.DataFrame(columns=...)
empty_dtypes == [RawIndex |-> "object", Match |-> "object"]

(***************************************************************************)
(* Raw importer: VerificationManager.update                                *)
(***************************************************************************)
\* the lines a source file may hold (without the line terminator, which
\* sits in the discarded trailing column)
LinePool == { "5_200_Sam_0000001e_00000001_00ff_hello,ignored",
              "6_20_Al_0000001f_00000001__,x",
              "5_200_Bo_0000001e_00000002_00ff_hi,x" }

\* a file is a sequence of lines, here without repeated lines; a directory
\* the sequence of its csv files in the order list_files walks them
Files == {f \in UNION {[1..n -> LinePool] : n \in 1..MaxLines} :
             \A p, q \in 1..Len(f) : f[p] = f[q] => p = q}
CsvDirs == {<<>>} \cup {<<f>> : f \in Files}

\* read_one: every line of a file without its trailing column
read_one(file) == [p \in 1..Len(file) |-> join(DropLast(split(file[p], ",")))]

\* matcher.match(entry): the pattern is anchored at the start only
\*   \d{1,3}_\d{1,4}_[^_]+_[0-9a-f]{8}_[0-9a-f]{8}_([0-9a-f]{4})*_.*
matcher(entry) ==
    LET g == split(entry, "_")
    IN  /\ Len(g) >= 7
        /\ Len(g[1]) \in 1..3 /\ AllIn(g[1], Digits)
        /\ Len(g[2]) \in 1..4 /\ AllIn(g[2], Digits)
        /\ Len(g[3]) >= 1
        /\ Len(g[4]) = 8 /\ AllIn(g[4], HexDigits)
        /\ Len(g[5]) = 8 /\ AllIn(g[5], HexDigits)
        /\ Len(g[6]) % 4 = 0 /\ AllIn(g[6], HexDigits)

RECURSIVE Unique(_, _)
\* the loop body of read_all over a sequence of entries
Unique(unique_entries, entries) ==
    IF entries = <<>> THEN unique_entries
    ELSE LET entry == Head(entries)
             hit == matcher(entry)
                    /\ \A p \in 1..Len(unique_entries) : unique_entries[p] # entry
         IN  Unique(IF hit THEN Append(unique_entries, entry) ELSE unique_entries,
                    Tail(entries))

RECURSIVE ReadFiles(_, _)
ReadFiles(unique_entries, dir) ==
    IF dir = <<>> THEN unique_entries
    ELSE ReadFiles(Unique(unique_entries, read_one(Head(dir))), Tail(dir))

\* read_all: ordered unique entries that pass the format test
read_all(dir) == ReadFiles(<<>>, dir)

\* board_finder.get_board_by_id(int(split[4], 16)) resolves
BoardKnown(entry) == int(split(entry, "_")[5], HexDigits) \in DOMAIN BoardNames

\* make_columns
make_columns(entry) ==
    LET g == split(entry, "_")
    IN  [Match     |-> int(g[1], Digits),
         Team      |-> int(g[2], Digits),
         Name      |-> g[3],
         StartTime |-> display_time(int(g[4], HexDigits)),
         Board     |-> BoardNames[int(g[5], HexDigits)],
         Data      |-> g[6],
         Comments  |-> g[7]]

\* pd.DataFrame([make_columns(e) for e in entries]): a fresh RangeIndex
RawFrame(entries) ==
    [p \in 1..Len(entries) |->
        [index     |-> p - 1,
         Match     |-> make_columns(entries[p]).Match,
         Team      |-> make_columns(entries[p]).Team,
         Name      |-> make_columns(entries[p]).Name,
         StartTime |-> make_columns(entries[p]).StartTime,
         Board     |-> make_columns(entries[p]).Board,
         Data      |-> make_columns(entries[p]).Data,
         Comments  |-> make_columns(entries[p]).Comments]]

\* the lines of the files an import run is given: the line of the format
\* description, a line outside the grammar, comments holding an underscore,
\* comments holding a comma, and a line without data and comments
ImportLines == { "5_200_Sam_0000001e_00000001_00ff_hello,ignored",
                 "junk,x",
                 "5_200_Sam_0000001e_00000001_00ff_a_b,x",
                 "5_200_Sam_0000001e_00000001_00ff_hel,lo,x",
                 "6_20_Al_0000001f_00000001__,x" }

\* files whose lines may repeat, and directories of one file or of a file
\* followed by a one-line file
ImportFiles == UNION {[1..n -> ImportLines] : n \in 1..MaxLines}
ImportDirs == {<<>>} \cup {<<f>> : f \in ImportFiles}
                    \cup {<<f, <<l>>>> : f \in ImportFiles, l \in ImportLines}

\* an import that leaves out the entries of unknown boards instead of
\* failing on them
import_skipping(dir) ==
    LET entries == read_all(dir)
        known == Select(entries, [p \in 1..Len(entries) |-> BoardKnown(entries[p])])
    IN  [ok |-> TRUE, entries |-> known, frame |-> RawFrame(known)]

\* the list comprehension of update over read_all(): the frame of the
\* entries, or no frame when make_columns fails on an unknown board
import(dir) ==
    LET entries == read_all(dir)
        ok == \A p \in 1..Len(entries) : BoardKnown(entries[p])
    IN  [ok |-> ok, entries |-> entries,
         frame |-> IF ok THEN RawFrame(entries) ELSE <<>>]

\* the import of every directory, computed once
Imported == [dir \in CsvDirs \cup ImportDirs |-> import(dir)]

(***************************************************************************)
(* Reconciliation: VerificationManager.merge                               *)
(***************************************************************************)
\* a new row without the never-edited marker
NewData_unmarked(r) ==
    [index     |-> 0,
     RawIndex  |-> r.index,
     Match     |-> r.Match,
     Team      |-> r.Team,
     Name      |-> r.Name,
     StartTime |-> r.StartTime,
     Board     |-> r.Board,
     Data      |-> r.Data,
     Comments  |-> r.Comments,
     Edited    |-> ""]

\* a raw row after reset_index / rename / Edited = " "
NewData(r) ==
    [index     |-> 0,
     RawIndex  |-> r.index,
     Match     |-> r.Match,
     Team      |-> r.Team,
     Name      |-> r.Name,
     StartTime |-> r.StartTime,
     Board     |-> r.Board,
     Data      |-> r.Data,
     Comments  |-> r.Comments,
     Edited    |-> " "]

\* edited["RawIndex"].dropna()
RawIndexDropna(edited) ==
    {edited[p].RawIndex : p \in Positions(edited)} \ {NaN, None}

\* merge without the test on RawIndex: every raw row is appended
merge_every_row(raw, edited) ==
    RangeIndex(edited \o [p \in Positions(raw) |-> NewData(raw[p])])

\* merge testing the raw index against the row identities of the edited
\* table instead of its RawIndex column
merge_by_identity(raw, edited) ==
    LET condition == [p \in Positions(raw) |-> raw[p].index \notin Labels(edited)]
        picked == Select(raw, condition)
    IN  RangeIndex(edited \o [p \in Positions(picked) |-> NewData(picked[p])])

\* merge keeping the new rows alone
merge_new_only(raw, edited) ==
    LET condition == [p \in Positions(raw) |->
                         raw[p].index \notin RawIndexDropna(edited)]
        picked == Select(raw, condition)
    IN  RangeIndex([p \in Positions(picked) |-> NewData(picked[p])])

\* merge: the edited table after merging raw into it
merge(raw, edited) ==
    LET condition == [p \in Positions(raw) |->
                         raw[p].index \notin RawIndexDropna(edited)]
        picked == Select(raw, condition)
        new_data == [p \in Positions(picked) |-> NewData(picked[p])]
    IN  RangeIndex(edited \o new_data)

\* the dtypes of the edited table after merge
merge_dtypes(raw, types) ==
    [RawIndex |-> concat_dtype(types.RawIndex, frame_dtype(raw)),
     Match    |-> concat_dtype(types.Match, frame_dtype(raw))]

(***************************************************************************)
(* Entries and lookups                                                     *)
(***************************************************************************)
\* entrylib.Entry(row, board_finder): the decoded view of one row
Entry(row) ==
    [Match     |-> row.Match,
     Team      |-> row.Team,
     Name      |-> row.Name,
     StartTime |-> row.StartTime,
     Board     |-> row.Board,
     Data      |-> row.Data,
     Comments  |-> row.Comments]

NoEntry == [Match |-> 0, Team |-> 0, Name |-> "", StartTime |-> "",
            Board |-> "", Data |-> "", Comments |-> ""]

\* results of a call
Returned(kind) == [kind |-> kind]
Raised(error) == [kind |-> error]

\* VerificationManager.__getitem__: the index is tested as a label and read
\* as a position, in the edited table and again in the raw table; a cell of
\* a float64 RawIndex column passes the test on the raw labels (0.0 in
\* index) and iloc refuses it.  entrylib.Entry takes the row as it is.
getitem(raw, edited, types, index) ==
    IF index \in Labels(edited)
    THEN IF ~InBounds(edited, index)
         THEN Raised("IndexError")
         ELSE LET row == iloc(edited, index)
              IN  IF row.RawIndex \in Labels(raw) /\ types.RawIndex = "float64"
                  THEN Raised("TypeError")
                  ELSE IF row.RawIndex \in Labels(raw) /\ ~InBounds(raw, row.RawIndex)
                  THEN Raised("IndexError")
                  ELSE [kind    |-> "item",
                        has_raw |-> row.RawIndex \in Labels(raw),
                        raw     |-> IF row.RawIndex \in Labels(raw)
                                    THEN Entry(iloc(raw, row.RawIndex))
                                    ELSE NoEntry,
                        edited  |-> Entry(row),
                        last_edit_time |-> row.Edited]
    ELSE Raised("IndexError")

\* VerificationManager.match_row / EntryManager.get_matching_row
match_row(edited, match, team, name) ==
    Select(edited, [p \in Positions(edited) |->
                       /\ edited[p].Match = match
                       /\ edited[p].Team = team
                       /\ edited[p].Name = name])

\* the row VerificationManager.append builds
AppendedRow(match, team, name) ==
    [index     |-> 0,
     RawIndex  |-> NaN,
     Match     |-> match,
     Team      |-> team,
     Name      |-> name,
     StartTime |-> display_time(Now),
     Board     |-> get_first,
     Data      |-> "",
     Comments  |-> "",
     Edited    |-> ""]

\* append without the lookup of an existing row
append_always(edited, match, team, name) ==
    RangeIndex(edited \o <<AppendedRow(match, team, name)>>)

\* the edited table after VerificationManager.append
append(edited, match, team, name) ==
    IF match_row(edited, match, team, name) = <<>>
    THEN RangeIndex(edited \o <<AppendedRow(match, team, name)>>)
    ELSE edited

\* the dtypes of the edited table after the concat of append: the new row
\* holds np.nan in RawIndex and an int in Match
append_dtypes(types) ==
    [RawIndex |-> concat_dtype(types.RawIndex, "float64"),
     Match    |-> concat_dtype(types.Match, "int64")]

\* a write to the row at position index instead of the row labelled index
setitem_by_position(edited, index, value) ==
    [p \in Positions(edited) |->
        IF p = index + 1
        THEN [edited[p] EXCEPT !.Match = value.Match,
                               !.Team = value.Team,
                               !.Name = value.Name,
                               !.StartTime = value.StartTime,
                               !.Comments = value.Comments,
                               !.Data = value.Data,
                               !.Edited = display_time(Now)]
        ELSE edited[p]]

\* the edited table after VerificationManager.__setitem__ on a present index
setitem(edited, index, value) ==
    [p \in Positions(edited) |->
        IF edited[p].index = index
        THEN [edited[p] EXCEPT !.Match = value.Match,
                               !.Team = value.Team,
                               !.Name = value.Name,
                               !.StartTime = value.StartTime,
                               !.Comments = value.Comments,
                               !.Data = value.Data,
                               !.Edited = display_time(Now)]
        ELSE edited[p]]

(***************************************************************************)
(* Inputs                                                                  *)
(***************************************************************************)
Matches == {7}
Teams == {200}
Names == {"Sam"}
Indices == 0..(MaxRows - 1)

\* the entries a caller writes back
Values == {[Match |-> 7, Team |-> 200, Name |-> "Sam", StartTime |-> "t30",
            Board |-> "Comp", Data |-> "00aa", Comments |-> "checked"]}

(***************************************************************************)
(* State                                                                   *)
(***************************************************************************)
NoDb == [exists |-> FALSE, has_raw |-> FALSE, has_edited |-> FALSE,
         raw |-> <<>>, edited |-> <<>>]

Init ==
    /\ db = NoDb
    /\ session = "none"
    /\ raw_entries = <<>>
    /\ edited_entries = <<>>
    /\ original_data = <<>>
    /\ edited_data = <<>>
    /\ filtered_table = <<>>
    /\ dtypes = empty_dtypes
    /\ op = [name |-> "none"]
    /\ ret = Returned("none")

\* VerificationManager.save
saved(raw, edited) ==
    [exists |-> TRUE, has_raw |-> TRUE, has_edited |-> TRUE,
     raw |-> raw, edited |-> to_sql(edited)]

NoEntryManager ==
    /\ original_data' = <<>>
    /\ edited_data' = <<>>
    /\ filtered_table' = <<>>

(***************************************************************************)
(* VerificationManager                                                     *)
(***************************************************************************)
\* __init__ on an existing database file: both tables are read
VMLoad ==
    /\ db.exists
    /\ op' = [name |-> "VM.__init__", created |-> FALSE]
    /\ IF db.has_raw /\ db.has_edited
       THEN /\ session' = "vm"
            /\ raw_entries' = db.raw
            /\ edited_entries' = read_sql(db.edited)
            /\ dtypes' = sql_dtypes(db.edited)
            /\ ret' = Returned("none")
       ELSE /\ session' = "none"
            /\ raw_entries' = <<>>
            /\ edited_entries' = <<>>
            /\ dtypes' = empty_dtypes
            /\ ret' = Raised("DatabaseError")
    /\ NoEntryManager
    /\ UNCHANGED db

\* __init__ without a database file: empty tables, update(), save()
VMCreate(dir) ==
    /\ ~db.exists
    /\ op' = [name |-> "VM.__init__", created |-> TRUE]
    /\ IF Imported[dir].ok
       THEN /\ session' = "vm"
            /\ raw_entries' = Imported[dir].frame
            /\ edited_entries' = merge(Imported[dir].frame, <<>>)
            /\ dtypes' = merge_dtypes(Imported[dir].frame, empty_dtypes)
            /\ db' = saved(raw_entries', edited_entries')
            /\ ret' = Returned("none")
       ELSE /\ session' = "none"
            /\ raw_entries' = <<>>
            /\ edited_entries' = <<>>
            /\ dtypes' = empty_dtypes
            /\ ret' = Raised("UnknownBoard")
            /\ UNCHANGED db
    /\ NoEntryManager

\* update(): replace the raw table by the import, then merge(); call is
\* what op remembers of the call
Update(dir, call) ==
    /\ session = "vm"
    /\ op' = call
    /\ IF Imported[dir].ok
       THEN /\ Len(merge(Imported[dir].frame, edited_entries)) <= MaxRows
            /\ raw_entries' = Imported[dir].frame
            /\ edited_entries' = merge(Imported[dir].frame, edited_entries)
            /\ dtypes' = merge_dtypes(Imported[dir].frame, dtypes)
            /\ ret' = Returned("none")
       ELSE /\ UNCHANGED <<raw_entries, edited_entries, dtypes>>
            /\ ret' = Raised("UnknownBoard")
    /\ UNCHANGED <<db, session, original_data, edited_data, filtered_table>>

VMUpdate(dir) == Update(dir, [name |-> "update"])

\* update() with the files it read remembered
VMUpdateFrom(dir) == Update(dir, [name |-> "update", dir |-> dir])

\* merge()
VMMerge ==
    /\ session = "vm"
    /\ Len(merge(raw_entries, edited_entries)) <= MaxRows
    /\ op' = [name |-> "merge",
              appended |-> Len(merge(raw_entries, edited_entries))
                           - Len(edited_entries)]
    /\ edited_entries' = merge(raw_entries, edited_entries)
    /\ dtypes' = merge_dtypes(raw_entries, dtypes)
    /\ ret' = Returned("none")
    /\ UNCHANGED <<db, session, raw_entries, original_data, edited_data,
                   filtered_table>>

\* save()
VMSave ==
    /\ session = "vm"
    /\ op' = [name |-> "VM.save"]
    /\ db' = saved(raw_entries, edited_entries)
    /\ ret' = Returned("none")
    /\ UNCHANGED <<session, raw_entries, edited_entries, original_data,
                   edited_data, filtered_table, dtypes>>

\* self[index]
VMGetItem(index) ==
    /\ session = "vm"
    /\ op' = [name |-> "__getitem__", index |-> index]
    /\ ret' = getitem(raw_entries, edited_entries, dtypes, index)
    /\ UNCHANGED <<db, session, raw_entries, edited_entries, original_data,
                   edited_data, filtered_table, dtypes>>

\* self[index] = value
VMSetItem(index, value) ==
    /\ session = "vm"
    /\ op' = [name |-> "__setitem__", index |-> index, value |-> value]
    /\ IF index \in Labels(edited_entries)
       THEN /\ edited_entries' = setitem(edited_entries, index, value)
            /\ ret' = Returned("none")
       ELSE /\ UNCHANGED edited_entries
            /\ ret' = Raised("IndexError")
    /\ UNCHANGED <<db, session, raw_entries, original_data, edited_data,
                   filtered_table, dtypes>>

\* append(match=, team=, name=)
VMAppend(match, team, name) ==
    /\ session = "vm"
    /\ Len(append(edited_entries, match, team, name)) <= MaxRows
    /\ op' = [name |-> "append", match |-> match, team |-> team,
              key |-> name,
              found |-> match_row(edited_entries, match, team, name) # <<>>,
              again |-> /\ op.name = "append"
                        /\ ~op.found
                        /\ <<op.match, op.team, op.key>> = <<match, team, name>>]
    /\ edited_entries' = append(edited_entries, match, team, name)
    /\ dtypes' = IF match_row(edited_entries, match, team, name) = <<>>
                 THEN append_dtypes(dtypes)
                 ELSE dtypes
    /\ ret' = getitem(raw_entries, edited_entries', dtypes',
                      match_row(edited_entries', match, team, name)[1].index)
    /\ UNCHANGED <<db, session, raw_entries, original_data, edited_data,
                   filtered_table>>

(***************************************************************************)
(* EntryManager                                                            *)
(***************************************************************************)
Lower == "abcdefghijklmnopqrstuvwxyz"
Upper == "ABCDEFGHIJKLMNOPQRSTUVWXYZ"

\* one character in the other case when it has one
ToCase(c, from, to) ==
    IF IsIn(c, from) THEN Char(to, ValueIn(c, from) + 1) ELSE c

RECURSIVE lower(_)
\* str.lower()
lower(x) ==
    IF Len(x) = 0 THEN ""
    ELSE ToCase(Char(x, 1), Upper, Lower) \o lower(SubSeq(x, 2, Len(x)))

\* str.capitalize()
capitalize(x) ==
    IF Len(x) = 0 THEN ""
    ELSE ToCase(Char(x, 1), Lower, Upper) \o lower(SubSeq(x, 2, Len(x)))

FILTER_HEADER == <<"Match", "Team", "Name", "Board", "Edited">>
FILTER_SORT == <<"Match", "Team">>

RECURSIVE capitalized(_)
\* {k.capitalize(): kwargs[k] for k in kwargs.keys()}
capitalized(kwargs) ==
    IF kwargs = <<>> THEN <<>>
    ELSE <<[k |-> capitalize(Head(kwargs).k), v |-> Head(kwargs).v]>>
         \o capitalized(Tail(kwargs))

\* filters[key] of a dict built from keywords in order: the last of the
\* keywords with that key, 0 when there is none
KeyAt(filters, key) ==
    IF \E p \in 1..Len(filters) : filters[p].k = key
    THEN CHOOSE p \in 1..Len(filters) :
             /\ filters[p].k = key
             /\ \A q \in (p + 1)..Len(filters) : filters[q].k # key
    ELSE 0

\* the cast of a Python argument to the dtype of a column of numbers
\* succeeds: of an int, and of a str of decimal digits (the strs a caller
\* supplies here are digits or names)
Castable(a) == a.t = "int" \/ (a.s # "" /\ AllIn(a.s, Digits))
Cast(a) == IF a.t = "int" THEN a.i ELSE int(a.s, Digits)

\* Series.isin(values) on one cell of a column of numbers: the values are
\* cast to the dtype of an int64 or float64 column when all of them can be,
\* and compared as objects otherwise
numisin(n, values, dtype) ==
    /\ ~isna(n)
    /\ IF dtype # "object" /\ \A a \in values : Castable(a)
       THEN \E a \in values : Cast(a) = n
       ELSE \E a \in values : IntEq(n, a)

\* Series.isin(values) on one cell of a column of strings
strisin(x, values) == ~isnastr(x) /\ \E a \in values : StrEq(x, a)

\* Series.isin(values) on one cell; values are Python arguments
isin(row, column, values, types) ==
    CASE column = "Match"  -> numisin(row.Match, values, types.Match)
      [] column = "Team"   -> numisin(row.Team, values, types.Match)
      [] column = "Name"   -> strisin(row.Name, values)
      [] column = "Board"  -> strisin(row.Board, values)
      [] column = "Edited" -> strisin(row.Edited, values)

\* the rows that pass every filter on a column of FILTER_HEADER
Filtered(df, kwargs, types) ==
    LET filters == capitalized(kwargs)
    IN  Select(df, [p \in Positions(df) |->
                       \A h \in 1..Len(FILTER_HEADER) :
                           KeyAt(filters, FILTER_HEADER[h]) # 0 =>
                               isin(df[p], FILTER_HEADER[h],
                                    filters[KeyAt(filters, FILTER_HEADER[h])].v,
                                    types)])

\* the order of one sort key: cells without a value go last
Less(x, y) == ~isna(x) /\ (isna(y) \/ x < y)
Same(x, y) == IF isna(x) THEN isna(y) ELSE x = y

\* the order of sort_values(by=FILTER_SORT)
Before(a, b) ==
    Less(a.Match, b.Match) \/ (Same(a.Match, b.Match) /\ Less(a.Team, b.Team))

RECURSIVE Insert(_, _)
Insert(sorted, row) ==
    IF sorted = <<>> THEN <<row>>
    ELSE IF Before(row, Head(sorted)) THEN <<row>> \o sorted
    ELSE <<Head(sorted)>> \o Insert(Tail(sorted), row)

RECURSIVE sort_values(_)
\* df.sort_values(by=FILTER_SORT): equal keys keep their order
sort_values(df) ==
    IF df = <<>> THEN <<>>
    ELSE Insert(sort_values(SubSeq(df, 1, Len(df) - 1)), df[Len(df)])

\* EntryManager.filter: the FILTER_HEADER columns with the row identity
\* in the column "index"
filter(df, kwargs, types) ==
    LET sorted == sort_values(Filtered(df, kwargs, types))
    IN  [p \in Positions(sorted) |->
            [index  |-> sorted[p].index,
             Match  |-> sorted[p].Match,
             Team   |-> sorted[p].Team,
             Name   |-> sorted[p].Name,
             Board  |-> sorted[p].Board,
             Edited |-> sorted[p].Edited]]

\* EntryManager.data_row_at / entry_at: the index is tested as a label and
\* read as a position.  board.Finder and decoder are not part of the
\* sources: the board of a row is found by its name, and the lookup by a
\* cell that holds no name fails, as does the decoding of a cell that holds
\* no data
entry_at(df, index) ==
    IF index \in Labels(df)
    THEN IF InBounds(df, index)
         THEN IF isnastr(iloc(df, index).Board) \/ isnastr(iloc(df, index).Data)
              THEN Raised("BoardError")
              ELSE [kind |-> "entry", entry |-> Entry(iloc(df, index))]
         ELSE Raised("IndexError")
    ELSE Returned("empty")

\* list.index(x): 0-based position of the first x
ListIndex(list, x) == (CHOOSE p \in 1..Len(list) :
                          /\ list[p] = x
                          /\ \A q \in 1..(p - 1) : list[q] # x) - 1

\* EntryManager.get_relative_entry
get_relative_entry(df, table, current_index, increment_by) ==
    LET indices == [p \in 1..Len(table) |-> table[p].index]
    IN  IF Len(indices) # 0
        THEN IF \E p \in 1..Len(indices) : indices[p] = current_index
             THEN entry_at(df, indices[((ListIndex(indices, current_index)
                                         + increment_by) % Len(indices)) + 1])
             ELSE entry_at(df, indices[1])
        ELSE Returned("empty")

\* EntryManager.add_entry
add_entry(df, match, team, name) ==
    IF match_row(df, match, team, name) = <<>>
    THEN Returned("None")
    ELSE entry_at(df, match_row(df, match, team, name)[1].index)

\* the three comparisons of EntryManager.remove_entry
RemoveCorrect(row, match, team, name, types) ==
    /\ StrEq(cellstr(row.Match, types.Match), match)
    /\ StrEq(cellstr(row.Team, types.Match), team)
    /\ StrEq(strcell(row.Name), name)

\* the edited table after EntryManager.remove_entry on a present identity
remove_entry(df, match, team, name, index_value, types) ==
    IF RemoveCorrect(loc(df, index_value), match, team, name, types)
    THEN drop(df, index_value)
    ELSE df

(***************************************************************************)
(* VerificationManager.search                                              *)
(***************************************************************************)
\* str(x) of a Python argument
pystr(a) == IF a.t = "int" THEN str(a.i) ELSE a.s

\* sub in x
contains(x, sub) ==
    \E i \in 1..(Len(x) - Len(sub) + 1) : SubSeq(x, i, i + Len(sub) - 1) = sub

\* a test for the digits anywhere in the number instead of at its start
startswith_anywhere(x, prefix) == contains(x, prefix)

\* x.startswith(prefix)
startswith(x, prefix) ==
    Len(prefix) <= Len(x) /\ SubSeq(x, 1, Len(prefix)) = prefix

\* {k.capitalize(): kwargs[k] for k in kwargs.keys() if kwargs[k]}: the
\* keywords whose list of values is not empty
search_rules(kwargs) ==
    capitalized(Select(kwargs, [p \in 1..Len(kwargs) |-> kwargs[p].v # {}]))

\* possible_matches: the values of the Match column that start with the
\* string of a supplied value
possible_matches(edited, matches, types) ==
    {edited[p].Match : p \in {q \in Positions(edited) :
        \E match \in matches :
            startswith(cellstr(edited[q].Match, types.Match), pystr(match))}}

\* possible_teams
possible_teams(edited, teams, types) ==
    {edited[p].Team : p \in {q \in Positions(edited) :
        \E team \in teams :
            startswith(cellstr(edited[q].Team, types.Match), pystr(team))}}

\* names compared as they are written, whole name against whole name
possible_names_exact(edited, names) ==
    {edited[p].Name : p \in {q \in Positions(edited) :
        \E name \in names : name.s = edited[q].Name}}

\* possible_names: the values of the Name column that hold a supplied name,
\* both in lower case
possible_names(edited, names) ==
    {edited[p].Name : p \in {q \in Positions(edited) :
        \E name \in names : contains(lower(edited[q].Name), lower(name.s))}}

\* search fails in the loop over the names: a cell without a value has no
\* lower()
search_fails(edited, kwargs) ==
    /\ KeyAt(search_rules(kwargs), "Name") # 0
    /\ \E p \in Positions(edited) : isnastr(edited[p].Name)

\* VerificationManager.search: the rows of the edited table that pass every
\* rule, sorted by FILTER_SORT, under their row identities
search(edited, kwargs, types) ==
    LET rules == search_rules(kwargs)
        Match == KeyAt(rules, "Match")
        Team == KeyAt(rules, "Team")
        Name == KeyAt(rules, "Name")
        Board == KeyAt(rules, "Board")
        Edited == KeyAt(rules, "Edited")
        matches == possible_matches(edited, rules[Match].v, types)
        teams == possible_teams(edited, rules[Team].v, types)
        names == possible_names(edited, rules[Name].v)
        keep(row) ==
            /\ Match # 0 => row.Match \in matches
            /\ Team # 0 => row.Team \in teams
            /\ Name # 0 => row.Name \in names
            /\ Board # 0 => isin(row, "Board", rules[Board].v, types)
            /\ Edited # 0 => isin(row, "Edited", rules[Edited].v, types)
    IN  sort_values(Select(edited, [p \in Positions(edited) |-> keep(edited[p])]))

\* search(**kwargs)
VMSearch(kwargs) ==
    /\ session = "vm"
    /\ op' = [name |-> "search", kwargs |-> kwargs]
    /\ ret' = IF search_fails(edited_entries, kwargs)
               THEN Raised("AttributeError")
               ELSE [kind |-> "table",
                     table |-> search(edited_entries, kwargs, dtypes)]
    /\ UNCHANGED <<db, session, raw_entries, edited_entries, original_data,
                   edited_data, filtered_table, dtypes>>

(***************************************************************************)
(* EntryManager, continued                                                 *)
(***************************************************************************)
\* EntryManager.__init__, the table built from the stored tables
LoadEdited(store) ==
    IF store.has_edited
    THEN merge(store.raw, read_sql(store.edited))
    ELSE RangeIndex([p \in Positions(store.raw) |-> NewData(store.raw[p])])

\* the dtypes of that table
LoadDtypes(store) ==
    IF ~store.has_raw THEN empty_dtypes
    ELSE IF store.has_edited
    THEN merge_dtypes(store.raw, sql_dtypes(store.edited))
    ELSE [RawIndex |-> frame_dtype(store.raw), Match |-> frame_dtype(store.raw)]

\* the keyword arguments a caller filters by
Criteria == { <<>>,
              <<[k |-> "match", v |-> {PyInt(5)}]>> }

\* the data a caller passes to edit_entry
EditData == {"00aa"}

\* the row set_value adds for a label the table does not hold: the data,
\* and np.nan in every other cell
EnlargedRow(index, data) ==
    [index     |-> index,
     RawIndex  |-> NaN,
     Match     |-> NaN,
     Team      |-> NaN,
     Name      |-> NaNStr,
     StartTime |-> NaNStr,
     Board     |-> NaNStr,
     Data      |-> data,
     Comments  |-> NaNStr,
     Edited    |-> NaNStr]

\* the edited table after EntryManager.edit_entry: set_value writes the
\* Data cell of the row labelled index, and enlarges the table by a row
\* under that label when there is none
edit_entry(df, index, data) ==
    IF index \in Labels(df)
    THEN [p \in Positions(df) |->
             IF df[p].index = index THEN [df[p] EXCEPT !.Data = data] ELSE df[p]]
    ELSE Append(df, EnlargedRow(index, data))

\* the dtypes after edit_entry: the np.nan of an added row makes an int64
\* column float64
edit_dtypes(df, index, types) ==
    IF index \in Labels(df) THEN types
    ELSE [RawIndex |-> IF types.RawIndex = "int64" THEN "float64"
                       ELSE types.RawIndex,
          Match    |-> IF types.Match = "int64" THEN "float64" ELSE types.Match]

\* the (match, team, name) a caller passes to remove_entry: the values of
\* the first line of LinePool, as the table stores them and as strings
RemoveArgs ==
    { <<PyInt(5), PyInt(200), PyStr("Sam")>>,
      <<PyStr("5"), PyStr("200"), PyStr("Sam")>> }

NoVerificationManager ==
    /\ raw_entries' = <<>>
    /\ edited_entries' = <<>>

\* __init__: connecting creates the database file when there is none
EMInit ==
    /\ op' = [name |-> "EM.__init__"]
    /\ session' = "em"
    /\ IF db.has_raw
       THEN /\ Len(LoadEdited(db)) <= MaxRows
            /\ original_data' = db.raw
            /\ edited_data' = LoadEdited(db)
       ELSE /\ original_data' = <<>>
            /\ edited_data' = <<>>
    /\ dtypes' = LoadDtypes(db)
    /\ filtered_table' = <<>>
    /\ ret' = Returned("none")
    /\ NoVerificationManager
    /\ db' = [db EXCEPT !.exists = TRUE]

EMFilter(kwargs) ==
    /\ session = "em"
    /\ op' = [name |-> "filter", kwargs |-> kwargs]
    /\ filtered_table' = filter(edited_data, kwargs, dtypes)
    /\ ret' = Returned("table")
    /\ UNCHANGED <<db, session, raw_entries, edited_entries, original_data,
                   edited_data, dtypes>>

EMEntryAt(index) ==
    /\ session = "em"
    /\ op' = [name |-> "entry_at", index |-> index]
    /\ ret' = entry_at(edited_data, index)
    /\ UNCHANGED <<db, session, raw_entries, edited_entries, original_data,
                   edited_data, filtered_table, dtypes>>

\* get_relative_entry over the table the caller holds from filter
EMGetRelative(name, current_index, increment_by) ==
    /\ session = "em"
    /\ op' = [name |-> name, current_index |-> current_index,
              increment_by |-> increment_by]
    /\ ret' = get_relative_entry(edited_data, filtered_table, current_index,
                                 increment_by)
    /\ UNCHANGED <<db, session, raw_entries, edited_entries, original_data,
                   edited_data, filtered_table, dtypes>>

EMNextEntry(current_index) == EMGetRelative("next", current_index, 1)

EMPrevious(current_index) == EMGetRelative("previous", current_index, -1)

EMAddEntry(match, team, name) ==
    /\ session = "em"
    /\ op' = [name |-> "add_entry", match |-> match, team |-> team,
              key |-> name]
    /\ ret' = add_entry(edited_data, match, team, name)
    /\ UNCHANGED <<db, session, raw_entries, edited_entries, original_data,
                   edited_data, filtered_table, dtypes>>

EMRemoveEntry(args, index_value) ==
    /\ session = "em"
    /\ op' = [name |-> "remove_entry", args |-> args,
              index_value |-> index_value]
    /\ IF index_value \in Labels(edited_data)
       THEN /\ edited_data' = remove_entry(edited_data, args[1], args[2],
                                           args[3], index_value, dtypes)
            /\ ret' = Returned("none")
       ELSE /\ UNCHANGED edited_data
            /\ ret' = Raised("KeyError")
    /\ UNCHANGED <<db, session, raw_entries, edited_entries, original_data,
                   filtered_table, dtypes>>

\* edit_entry(index, data)
EMEditEntry(index, data) ==
    /\ session = "em"
    /\ Len(edit_entry(edited_data, index, data)) <= MaxRows
    /\ op' = [name |-> "edit_entry", index |-> index, data |-> data]
    /\ edited_data' = edit_entry(edited_data, index, data)
    /\ dtypes' = edit_dtypes(edited_data, index, dtypes)
    /\ ret' = Returned("none")
    /\ UNCHANGED <<db, session, raw_entries, edited_entries, original_data,
                   filtered_table>>

\* EntryManager.save: the edited table alone is written
EMSave ==
    /\ session = "em"
    /\ op' = [name |-> "EM.save"]
    /\ db' = [db EXCEPT !.exists = TRUE, !.has_edited = TRUE,
                        !.edited = to_sql(edited_data)]
    /\ ret' = Returned("none")
    /\ UNCHANGED <<session, raw_entries, edited_entries, original_data,
                   edited_data, filtered_table, dtypes>>

EMNext ==
    \/ EMInit
    \/ \E kwargs \in Criteria : EMFilter(kwargs)
    \/ \E index \in Indices : EMEntryAt(index)
    \/ \E current_index \in Indices : EMNextEntry(current_index)
    \/ \E current_index \in Indices : EMPrevious(current_index)
    \/ \E match \in Matches, team \in Teams, name \in Names :
           EMAddEntry(match, team, name)
    \/ \E args \in RemoveArgs, index_value \in Indices :
           EMRemoveEntry(args, index_value)
    \/ \E index \in Indices, data \in EditData :
           EMEditEntry(index, data)
    \/ EMSave

VMNext ==
    \/ VMLoad
    \/ \E dir \in CsvDirs : VMCreate(dir)
    \/ \E dir \in CsvDirs : VMUpdate(dir)
    \/ VMMerge
    \/ VMSave
    \/ \E index \in Indices : VMGetItem(index)
    \/ \E index \in Indices, value \in Values : VMSetItem(index, value)
    \/ \E match \in Matches, team \in Teams, name \in Names :
           VMAppend(match, team, name)
    \/ \E kwargs \in Criteria : VMSearch(kwargs)

Next == VMNext \/ EMNext

Spec == Init /\ [][Next]_vars

\* every operation that changes the tables or the store; the lookups, which
\* change neither, are left out
WriteNext ==
    \/ VMLoad
    \/ \E dir \in CsvDirs : VMCreate(dir)
    \/ \E dir \in CsvDirs : VMUpdate(dir)
    \/ VMMerge
    \/ VMSave
    \/ \E index \in Indices, value \in Values : VMSetItem(index, value)
    \/ \E match \in Matches, team \in Teams, name \in Names :
           VMAppend(match, team, name)
    \/ EMInit
    \/ \E args \in RemoveArgs, index_value \in Indices :
           EMRemoveEntry(args, index_value)
    \/ \E index \in Indices, data \in EditData :
           EMEditEntry(index, data)
    \/ EMSave

SpecWrite == Init /\ [][WriteNext]_vars

(***************************************************************************)
(* Imports of files with lines outside the grammar, repeated lines and     *)
(* comments holding separators                                             *)
(***************************************************************************)
ImportNext ==
    \/ \E dir \in ImportDirs : VMCreate(dir)
    \/ \E dir \in ImportDirs : VMUpdateFrom(dir)

SpecImport == Init /\ [][ImportNext]_vars

(***************************************************************************)
(* Re-imports over changing files, between appends and write-backs         *)
(***************************************************************************)
UpdateNext ==
    \/ \E dir \in CsvDirs : VMCreate(dir)
    \/ \E dir \in CsvDirs : VMUpdateFrom(dir)
    \/ \E index \in Indices, value \in Values : VMSetItem(index, value)
    \/ \E match \in Matches, team \in Teams, name \in Names :
           VMAppend(match, team, name)

SpecUpdate == Init /\ [][UpdateNext]_vars

(***************************************************************************)
(* Queries over stored tables                                              *)
(***************************************************************************)
\* a row as append creates it and __setitem__ stamps it
QueryRow(match, team, name, edited) ==
    [AppendedRow(match, team, name) EXCEPT !.Edited = edited]

\* the tables of up to MaxQueryRows different rows of a pool
QueryTables(pool) ==
    {RangeIndex(t) : t \in {u \in UNION {[1..n -> pool] : n \in 0..MaxQueryRows} :
                                \A p, q \in 1..Len(u) : u[p] = u[q] => p = q}}

SearchRows == { QueryRow(5, 20, "Sam", ""),
                QueryRow(50, 200, "Al", ""),
                QueryRow(5, 2001, "Sal", ""),
                QueryRow(6, 120, "Sam", ""),
                QueryRow(15, 20, "al", "") }

\* the keyword arguments a caller searches by
SearchCriteria ==
    { <<>>,
      <<[k |-> "team", v |-> {PyStr("20")}]>>,
      <<[k |-> "Team", v |-> {PyInt(20), PyInt(12)}]>>,
      <<[k |-> "match", v |-> {PyInt(5)}]>>,
      <<[k |-> "match", v |-> {PyInt(7)}]>>,
      <<[k |-> "match", v |-> {PyStr("5")}], [k |-> "name", v |-> {PyStr("sa")}]>>,
      <<[k |-> "name", v |-> {PyStr("AL"), PyStr("m")}]>>,
      <<[k |-> "team", v |-> {}], [k |-> "name", v |-> {PyStr("al")}]>>,
      <<[k |-> "TEAM", v |-> {PyInt(2)}], [k |-> "match", v |-> {PyInt(5), PyInt(6)}]>> }

\* a verification manager loaded from a store that holds the table
InitSearch ==
    /\ \E t \in QueryTables(SearchRows) :
           /\ db = saved(<<>>, t)
           /\ edited_entries = read_sql(db.edited)
           /\ dtypes = sql_dtypes(db.edited)
    /\ session = "vm"
    /\ raw_entries = <<>>
    /\ original_data = <<>>
    /\ edited_data = <<>>
    /\ filtered_table = <<>>
    /\ op = [name |-> "VM.__init__", created |-> FALSE]
    /\ ret = Returned("none")

SearchNext == \E kwargs \in SearchCriteria : VMSearch(kwargs)

SpecSearch == InitSearch /\ [][SearchNext]_vars

FilterRows == { QueryRow(6, 20, "Al", " "),
                QueryRow(5, 200, "Sam", " "),
                QueryRow(5, 20, "Sam", display_time(Now)),
                QueryRow(5, 200, "Al", "") }

\* the keyword arguments a caller filters by
FilterCriteria ==
    { <<>>,
      <<[k |-> "match", v |-> {PyInt(5)}]>>,
      <<[k |-> "MATCH", v |-> {PyInt(5), PyInt(6)}]>>,
      <<[k |-> "Team", v |-> {PyInt(200)}]>>,
      <<[k |-> "match", v |-> {PyInt(5)}], [k |-> "team", v |-> {PyInt(20)}]>>,
      <<[k |-> "name", v |-> {PyStr("Sam")}]>>,
      <<[k |-> "name", v |-> {PyStr("sam")}]>>,
      <<[k |-> "board", v |-> {PyStr("Comp")}], [k |-> "edited", v |-> {PyStr(" ")}]>>,
      <<[k |-> "board", v |-> {PyStr("Pit")}]>>,
      <<[k |-> "match", v |-> {}]>>,
      <<[k |-> "match", v |-> {PyStr("5")}]>> }

\* the (match, team, name) of a row as the strings remove_entry compares
OwnValues(row) == <<PyStr(str(row.Match)), PyStr(str(row.Team)), PyStr(row.Name)>>

\* the rows of a table with an edit mark come from raw rows: they refer to
\* the raw rows in their order
Referring(t) ==
    [p \in Positions(t) |->
        IF t[p].Edited = "" THEN t[p]
        ELSE [t[p] EXCEPT !.RawIndex =
                 Cardinality({q \in 1..(p - 1) : t[q].Edited # ""})]]

\* the raw rows those rows come from
Referred(t) ==
    LET from == Select(t, [p \in Positions(t) |-> t[p].Edited # ""])
    IN  [p \in Positions(from) |->
            [index     |-> p - 1,
             Match     |-> from[p].Match,
             Team      |-> from[p].Team,
             Name      |-> from[p].Name,
             StartTime |-> from[p].StartTime,
             Board     |-> from[p].Board,
             Data      |-> from[p].Data,
             Comments  |-> from[p].Comments]]

\* an entry manager loaded from a store that holds the table and the raw
\* rows it refers to
InitFilter ==
    /\ \E t \in QueryTables(FilterRows) :
           /\ db = saved(Referred(t), Referring(t))
           /\ original_data = db.raw
           /\ edited_data = LoadEdited(db)
           /\ dtypes = LoadDtypes(db)
    /\ session = "em"
    /\ raw_entries = <<>>
    /\ edited_entries = <<>>
    /\ filtered_table = <<>>
    /\ op = [name |-> "EM.__init__"]
    /\ ret = Returned("none")

FilterNext ==
    \/ \E kwargs \in FilterCriteria : EMFilter(kwargs)
    \/ \E index_value \in Labels(edited_data) :
           EMRemoveEntry(OwnValues(loc(edited_data, index_value)), index_value)

SpecFilter == InitFilter /\ [][FilterNext]_vars

(***************************************************************************)
(* Properties                                                              *)
(***************************************************************************)
\* the entry a call returned is e
ReturnedEntry(r, e) ==
    \/ r.kind = "item" /\ r.edited = e
    \/ r.kind = "entry" /\ r.entry = e

\* every row of before is in after under the same identity, unchanged
Preserved(before, after) ==
    \A p \in Positions(before) :
        \E q \in Positions(after) : after[q] = before[p]

\* C1: merge is idempotent: merging the same raw table a second time
\* appends nothing, merge(raw, merge(raw, edited)) = merge(raw, edited) row
\* for row, for the tables of the verification manager and for the stored
\* tables the entry manager merges when it is constructed.
C1_MergeIdempotent ==
    /\ session = "vm" =>
           merge(raw_entries, merge(raw_entries, edited_entries))
               = merge(raw_entries, edited_entries)
    /\ db.has_raw /\ db.has_edited =>
           merge(db.raw, merge(db.raw, read_sql(db.edited)))
               = merge(db.raw, read_sql(db.edited))

\* a merge that appended rows has run
C1_Witness ==
    /\ op.name = "merge"
    /\ op.appended > 0
    /\ merge(raw_entries, edited_entries) = edited_entries

\* C2: merge preserves every pre-existing edited row: after merge (called
\* directly or through update) each row of the edited table is still there
\* under the same row identity with the same field values.
C2_MergePreserves ==
    [][op'.name \in {"merge", "update"} /\ ret'.kind = "none"
           => Preserved(edited_entries, edited_entries')]_vars

\* for every index of the raw table exactly one edited row references it
Coverage(raw, edited) ==
    \A i \in Labels(raw) :
        Cardinality({p \in Positions(edited) : edited[p].RawIndex = i}) = 1

\* C3: coverage after merge: right after merge, called directly, through
\* update or through the constructor that creates the store, every index of
\* the raw table is the RawIndex of exactly one edited row.
C3_CoverageAfterMerge ==
    ( /\ op.name \in {"merge", "update", "VM.__init__"}
      /\ op.name = "VM.__init__" => op.created
      /\ ret.kind = "none" )
        => Coverage(raw_entries, edited_entries)

\* an update has merged raw rows into a table that holds an appended row
\* written back through __setitem__
C3_Witness ==
    /\ op.name = "update"
    /\ ret.kind = "none"
    /\ raw_entries # <<>>
    /\ \E p \in Positions(edited_entries) :
           /\ edited_entries[p].RawIndex = NaN
           /\ edited_entries[p].Edited = display_time(Now)

\* C4: append is idempotent: a call of append that finds no row with
\* (match, team, name) adds exactly one row, and the next call with the same
\* three values adds none and returns the same entry, the entry of that row.
C4_AppendIdempotent ==
    [][op'.name = "append" =>
        /\ ~op'.found => Len(edited_entries') = Len(edited_entries) + 1
        /\ ( /\ op.name = "append"
             /\ ~op.found
             /\ <<op'.match, op'.team, op'.key>> = <<op.match, op.team, op.key>> )
           => /\ edited_entries' = edited_entries
              /\ ret' = ret
              /\ ret.kind = "item"
              /\ <<ret.edited.Match, ret.edited.Team, ret.edited.Name>>
                     = <<op.match, op.team, op.key>>]_vars

\* the second of two successive calls of append with the same values, the
\* first of which inserted the row
C4_Witness ==
    /\ op.name = "append"
    /\ op.again
    /\ ret.kind = "item"

\* C5: append with no matching row inserts one row with the three values,
\* RawIndex unset, Edited blank, the first board, empty data and comments,
\* leaves the other rows unchanged and returns the entry of the new row;
\* with a matching row it returns that row's entry and changes nothing.
\* Stated of VerificationManager.append and of EntryManager.add_entry.
C5_AppendInserts ==
    [][op'.name \in {"append", "add_entry"} =>
        LET before == IF op'.name = "append" THEN edited_entries ELSE edited_data
            after == IF op'.name = "append" THEN edited_entries' ELSE edited_data'
            hit == match_row(before, op'.match, op'.team, op'.key)
        IN  IF hit = <<>>
            THEN /\ Len(after) = Len(before) + 1
                 /\ \A p \in Positions(before) : after[p] = before[p]
                 /\ LET new == after[Len(after)]
                    IN  /\ <<new.Match, new.Team, new.Name>>
                               = <<op'.match, op'.team, op'.key>>
                        /\ new.RawIndex = NaN
                        /\ new.Edited = ""
                        /\ new.Board = get_first
                        /\ new.Data = ""
                        /\ new.Comments = ""
                        /\ ReturnedEntry(ret', Entry(new))
            ELSE /\ after = before
                 /\ ReturnedEntry(ret', Entry(hit[1]))]_vars

\* the cell holds the value the caller supplied, as an int or as its string
HoldsValue(n, arg) == IntEq(n, arg) \/ StrEq(str(n), arg)

\* the row at identity holds the three supplied values
HoldsValues(df, args, identity) ==
    /\ identity \in Labels(df)
    /\ HoldsValue(loc(df, identity).Match, args[1])
    /\ HoldsValue(loc(df, identity).Team, args[2])
    /\ StrEq(loc(df, identity).Name, args[3])

\* C6: removal guard: when the row at identity does not hold the three
\* supplied values, or no row has that identity, remove is a no-op: the
\* edited table is unchanged and no error is raised.
C6_RemovalGuard ==
    [][ ( /\ op'.name = "remove_entry"
          /\ ~HoldsValues(edited_data, op'.args, op'.index_value) )
        => /\ edited_data' = edited_data
           /\ ret'.kind = "none" ]_vars

\* C7: remove deletes on an exact match: when the row at identity holds
\* match and team equal to the supplied integers and name equal to the
\* supplied string, remove deletes exactly that row and leaves every other
\* row and its identity unchanged.
C7_RemoveDeletes ==
    [][ ( /\ op'.name = "remove_entry"
          /\ op'.index_value \in Labels(edited_data)
          /\ IntEq(loc(edited_data, op'.index_value).Match, op'.args[1])
          /\ IntEq(loc(edited_data, op'.index_value).Team, op'.args[2])
          /\ StrEq(loc(edited_data, op'.index_value).Name, op'.args[3]) )
        => /\ Labels(edited_data') = Labels(edited_data) \ {op'.index_value}
           /\ \A i \in Labels(edited_data') :
                  loc(edited_data', i) = loc(edited_data, i) ]_vars

\* the row holds a board name and data: an entry can be built from it
Buildable(row) == ~isnastr(row.Board) /\ ~isnastr(row.Data)

\* the identities of a filtered table, in its order
Identities(table) == [p \in 1..Len(table) |-> table[p].index]

\* C8: navigation wraparound: over a non-empty filtered view with identity
\* list L and a current identity c in L, next and previous return the entry
\* of the row whose identity is L[(position(c) + offset) mod len(L)], a row
\* that holds a board name and data.
C8_Wraparound ==
    ( /\ op.name \in {"next", "previous"}
      /\ filtered_table # <<>>
      /\ \E p \in 1..Len(filtered_table) :
             filtered_table[p].index = op.current_index )
    => LET L == Identities(filtered_table)
           target == L[((ListIndex(L, op.current_index) + op.increment_by)
                        % Len(L)) + 1]
       IN  ( /\ target \in Labels(edited_data)
             /\ Buildable(loc(edited_data, target)) )
               => ReturnedEntry(ret, Entry(loc(edited_data, target)))

\* C9: navigation fallbacks: when the current identity is not among the
\* identities of the view, next and previous return the entry of the row at
\* position 0 of the view, a row that holds a board name and data; when the
\* view has no rows they return the empty marker.
C9_Fallbacks ==
    op.name \in {"next", "previous"} =>
        /\ filtered_table = <<>> => ret.kind = "empty"
        /\ ( /\ filtered_table # <<>>
             /\ \A p \in 1..Len(filtered_table) :
                    filtered_table[p].index # op.current_index
             /\ filtered_table[1].index \in Labels(edited_data)
             /\ Buildable(loc(edited_data, filtered_table[1].index)) )
           => ReturnedEntry(ret, Entry(loc(edited_data, filtered_table[1].index)))

\* C10: identity lookup and navigation never fail on a missing identity:
\* entry_at, next and previous never raise an index or key error because
\* the identity is no longer in the table.
C10_NoUncaughtFailure ==
    op.name \in {"entry_at", "next", "previous"}
        => ret.kind \notin {"IndexError", "KeyError"}

\* the cell of a row under a field name in lower case, as a Python value
Cell(row, field) ==
    CASE field = "match"  -> PyInt(row.Match)
      [] field = "team"   -> PyInt(row.Team)
      [] field = "name"   -> PyStr(row.Name)
      [] field = "board"  -> PyStr(row.Board)
      [] field = "edited" -> PyStr(row.Edited)

\* the row's value is a member of the allowed set of every supplied field
Allowed(row, kwargs) ==
    \A p \in 1..Len(kwargs) : Cell(row, lower(kwargs[p].k)) \in kwargs[p].v

\* the rows of a table are in ascending order of (Match, Team), rows
\* without a value last
Ascending(table) ==
    \A p, q \in 1..Len(table) : p < q => ~Before(table[q], table[p])

\* no identity occurs twice in a table
DistinctIdentities(table) ==
    \A p, q \in 1..Len(table) : table[p].index = table[q].index => p = q

\* C11: filter exactness: filter returns exactly the rows of the edited
\* table whose value is a member of the allowed set of every supplied field
\* (keys in any case), no other rows, in ascending order of (Match, Team),
\* each under the row identity it has in the edited table.
C11_FilterExact ==
    op.name = "filter" =>
        /\ DistinctIdentities(filtered_table)
        /\ Ascending(filtered_table)
        /\ {filtered_table[p].index : p \in 1..Len(filtered_table)}
               = {i \in Labels(edited_data) :
                      Allowed(loc(edited_data, i), op.kwargs)}
        /\ \A p \in 1..Len(filtered_table) :
               LET row == loc(edited_data, filtered_table[p].index)
               IN  /\ filtered_table[p].Match = row.Match
                   /\ filtered_table[p].Team = row.Team
                   /\ filtered_table[p].Name = row.Name
                   /\ filtered_table[p].Board = row.Board
                   /\ filtered_table[p].Edited = row.Edited

\* the number a caller supplied, as an int or as its decimal string
NumberOf(a) == IF a.t = "int" THEN a.i ELSE int(a.s, Digits)

\* the decimal digits of v are the first digits of n, v positive
DecimalPrefix(v, n) == \E k \in 0..4 : n \div (10 ^ k) = v

\* the values supplied for a field, under keys in any case
Supplied(kwargs, field) ==
    UNION {kwargs[p].v : p \in {q \in 1..Len(kwargs) : lower(kwargs[q].k) = field}}

\* the row passes the prefix test of a numeric field
PrefixKeeps(n, values) == \E a \in values : DecimalPrefix(NumberOf(a), n)

\* C12: search prefix: a search by match and team keeps a row exactly when
\* the decimal string of the row's value starts with the decimal string of
\* at least one supplied value, and the result is in ascending order of
\* (Match, Team).
C12_SearchPrefix ==
    op.name = "search" =>
        /\ Ascending(ret.table)
        /\ (\A p \in 1..Len(op.kwargs) : lower(op.kwargs[p].k) \in {"match", "team"})
             => Labels(ret.table)
                    = {i \in Labels(edited_entries) :
                          /\ Supplied(op.kwargs, "match") # {} =>
                                 PrefixKeeps(loc(edited_entries, i).Match,
                                             Supplied(op.kwargs, "match"))
                          /\ Supplied(op.kwargs, "team") # {} =>
                                 PrefixKeeps(loc(edited_entries, i).Team,
                                             Supplied(op.kwargs, "team"))}

\* search(team=["20"]) has kept teams 20, 200 and 2001 and dropped 120
C12_Witness ==
    /\ op.name = "search"
    /\ op.kwargs = <<[k |-> "team", v |-> {PyStr("20")}]>>
    /\ {ret.table[p].Team : p \in 1..Len(ret.table)} = {20, 200, 2001}
    /\ \E p \in Positions(edited_entries) : edited_entries[p].Team = 120

\* two characters are the same letter in either case, or the same character
SameLetter(c, d) ==
    \/ c = d
    \/ \E n \in 1..Len(Lower) : {c, d} = {Char(Lower, n), Char(Upper, n)}

\* sub occurs in x when case is ignored
OccursIn(sub, x) ==
    \E i \in 0..(Len(x) - Len(sub)) :
        \A j \in 1..Len(sub) : SameLetter(Char(sub, j), Char(x, i + j))

\* the row satisfies the condition of one supplied field
FieldKeeps(row, field, values) ==
    CASE field = "match" -> PrefixKeeps(row.Match, values)
      [] field = "team"  -> PrefixKeeps(row.Team, values)
      [] field = "name"  -> \E a \in values : OccursIn(a.s, row.Name)

\* C13: search by name and field combination: search keeps a row on Name
\* exactly when at least one supplied name occurs in the row's name with
\* case ignored; a row is returned only if it satisfies the condition of
\* every supplied field, and a field supplied with an empty list imposes
\* no constraint.  The returned rows are rows of the edited table.
C13_SearchNameAnd ==
    op.name = "search" =>
        /\ DistinctIdentities(ret.table)
        /\ \A p \in 1..Len(ret.table) :
               /\ ret.table[p].index \in Labels(edited_entries)
               /\ ret.table[p] = loc(edited_entries, ret.table[p].index)
        /\ Labels(ret.table)
               = {i \in Labels(edited_entries) :
                     \A p \in 1..Len(op.kwargs) :
                         \/ op.kwargs[p].v = {}
                         \/ FieldKeeps(loc(edited_entries, i),
                                       lower(op.kwargs[p].k), op.kwargs[p].v)}

\* search(match=["5"], name=["sa"]) has kept Sal of match 5 and dropped Al
\* of match 50 on the name and Sam of match 6 on the match
C13_Witness ==
    /\ op.name = "search"
    /\ op.kwargs = <<[k |-> "match", v |-> {PyStr("5")}],
                     [k |-> "name", v |-> {PyStr("sa")}]>>
    /\ \E p \in 1..Len(ret.table) : ret.table[p].Name = "Sal"
    /\ \A p \in 1..Len(ret.table) : ret.table[p].Match = 5
    /\ \E p \in Positions(edited_entries) :
           edited_entries[p].Match = 50 /\ edited_entries[p].Name = "Al"
    /\ \E p \in Positions(edited_entries) :
           edited_entries[p].Match = 6 /\ edited_entries[p].Name = "Sam"

\* the line without its trailing column: what precedes its last comma
WithoutTrailingColumn(line) ==
    IF \A i \in 1..Len(line) : Char(line, i) # "," THEN ""
    ELSE SubSeq(line, 1, (CHOOSE i \in 1..Len(line) :
                             /\ Char(line, i) = ","
                             /\ \A j \in (i + 1)..Len(line) : Char(line, j) # ",") - 1)

RECURSIVE LinesOf(_)
\* the lines of the files of a directory in the order they are read
LinesOf(dir) == IF dir = <<>> THEN <<>> ELSE Head(dir) \o LinesOf(Tail(dir))

\* the positions of the lines that match the grammar and were not seen at
\* an earlier position
FirstSeen(lines) ==
    {p \in 1..Len(lines) :
        /\ matcher(WithoutTrailingColumn(lines[p]))
        /\ \A q \in 1..(p - 1) :
               WithoutTrailingColumn(lines[q]) # WithoutTrailingColumn(lines[p])}

\* what follows the n-th separator of x
RECURSIVE AfterNth(_, _, _)
AfterNth(x, sep, n) ==
    IF n = 0 THEN x
    ELSE LET p == CHOOSE i \in 1..Len(x) :
                      /\ Char(x, i) = sep
                      /\ \A j \in 1..(i - 1) : Char(x, j) # sep
         IN  AfterNth(SubSeq(x, p + 1, Len(x)), sep, n - 1)

\* C14: import skip and dedup: the raw table built by update holds one row
\* per distinct line (after dropping the trailing column) that matches the
\* grammar, in first-seen order; lines outside the grammar and lines seen
\* again contribute no row, and cause no error.
C14_ImportSkipDedup ==
    op.name = "update" =>
        LET lines == LinesOf(op.dir)
            seen == FirstSeen(lines)
        IN  /\ ret.kind = "none"
            /\ Len(raw_entries) = Cardinality(seen)
            /\ \A p \in seen :
                   LET k == Cardinality({q \in seen : q <= p})
                       g == split(WithoutTrailingColumn(lines[p]), "_")
                   IN  /\ k <= Len(raw_entries)
                       /\ raw_entries[k].Match = int(g[1], Digits)
                       /\ raw_entries[k].Team = int(g[2], Digits)
                       /\ raw_entries[k].Name = g[3]

\* C15: import field extraction: every line accepted by the grammar gives a
\* raw row with match and team the integers of the first two groups, name
\* the third group, board the name of the board of the board-id hex, data
\* the whole sequence of 4-hex groups and comments the entire trailing text
\* verbatim, underscores and commas included.
C15_FieldExtraction ==
    (op.name = "update" /\ ret.kind = "none") =>
        \A p \in 1..Len(LinesOf(op.dir)) :
            LET line == WithoutTrailingColumn(LinesOf(op.dir)[p])
                g == split(line, "_")
            IN  matcher(line) =>
                    \E k \in Positions(raw_entries) :
                        /\ raw_entries[k].Match = int(g[1], Digits)
                        /\ raw_entries[k].Team = int(g[2], Digits)
                        /\ raw_entries[k].Name = g[3]
                        /\ raw_entries[k].Board = BoardNames[int(g[5], HexDigits)]
                        /\ raw_entries[k].Data = g[6]
                        /\ raw_entries[k].Comments = AfterNth(line, "_", 6)

\* a line of the directory that the grammar accepts carries a board id the
\* board directory does not hold
UnknownBoardIn(dir) ==
    \E p \in 1..Len(LinesOf(dir)) :
        LET line == WithoutTrailingColumn(LinesOf(dir)[p])
        IN  /\ matcher(line)
            /\ int(split(line, "_")[5], HexDigits) \notin DOMAIN BoardNames

\* C16: an unknown board id is a hard failure of the import run: when an
\* accepted line carries a board id that cannot be resolved, update fails
\* with the error of the board lookup, the line is not skipped, and the raw
\* and edited tables are as they were before the call.
C16_UnknownBoardFails ==
    [][ /\ ( op'.name = "update" /\ UnknownBoardIn(op'.dir) )
             => ret'.kind = "UnknownBoard"
        /\ ( op'.name \in {"update", "VM.__init__"} /\ ret'.kind = "UnknownBoard" )
             => /\ raw_entries' = raw_entries
                /\ edited_entries' = edited_entries ]_vars

\* an update has failed on files whose first entry has a known board, over
\* tables that held rows
C16_Witness ==
    /\ op.name = "update"
    /\ ret.kind = "UnknownBoard"
    /\ BoardKnown(read_all(op.dir)[1])
    /\ raw_entries # <<>>
    /\ edited_entries # <<>>

\* C17: persistence-failure fallback: when loading the raw or the edited
\* table from the store fails, the constructor completes with empty raw and
\* edited tables instead of failing.
C17_LoadFallback ==
    /\ ( op.name = "VM.__init__" /\ ~op.created /\ ~(db.has_raw /\ db.has_edited) )
         => /\ ret.kind = "none"
            /\ session = "vm"
            /\ raw_entries = <<>>
            /\ edited_entries = <<>>
    /\ ( op.name = "EM.__init__" /\ ~db.has_raw )
         => /\ ret.kind = "none"
            /\ session = "em"
            /\ original_data = <<>>
            /\ edited_data = <<>>

\* the fields a raw row and an edited row share
RawFields(row) ==
    <<row.Match, row.Team, row.Name, row.StartTime, row.Board, row.Data,
      row.Comments>>

\* the raw indices that no edited row references
Unreferenced(raw, edited) ==
    {i \in Labels(raw) : \A p \in Positions(edited) : edited[p].RawIndex # i}

\* after holds the rows of before followed by one never-edited copy of each
\* unreferenced raw row, in the order of the raw indices
MergedShape(raw, before, after) ==
    LET new == Unreferenced(raw, before)
    IN  /\ Len(after) = Len(before) + Cardinality(new)
        /\ \A p \in Positions(before) :
               /\ RawFields(after[p]) = RawFields(before[p])
               /\ after[p].RawIndex = before[p].RawIndex
               /\ after[p].Edited = before[p].Edited
        /\ \A p \in (Len(before) + 1)..Len(after) :
               /\ after[p].RawIndex \in new
               /\ Cardinality({j \in new : j < after[p].RawIndex})
                      = p - Len(before) - 1
               /\ RawFields(after[p]) = RawFields(loc(raw, after[p].RawIndex))
               /\ after[p].Edited = " "

\* C18: shape of merged rows: merge appends, after all existing rows and in
\* raw-index order, exactly one new edited row for each raw index that no
\* existing edited row references; each new row copies the raw fields, has
\* the raw row's index as RawIndex and the blank marker in Edited.  Stated
\* of merge, of update, and of the merges inside both constructors.
C18_MergedRows ==
    [][ /\ op'.name = "merge"
             => MergedShape(raw_entries, edited_entries, edited_entries')
        /\ ( op'.name = "update" /\ ret'.kind = "none" )
             => MergedShape(raw_entries', edited_entries, edited_entries')
        /\ ( op'.name = "VM.__init__" /\ op'.created /\ ret'.kind = "none" )
             => MergedShape(raw_entries', <<>>, edited_entries')
        /\ ( op'.name = "EM.__init__" /\ db.has_raw )
             => MergedShape(db.raw,
                            IF db.has_edited THEN read_sql(db.edited) ELSE <<>>,
                            edited_data') ]_vars

\* a merge has appended never-edited rows after rows that were there
C18_Witness ==
    /\ op.name = "merge"
    /\ op.appended > 0
    /\ Len(edited_entries) > op.appended
    /\ edited_entries[Len(edited_entries)].Edited = " "
    /\ edited_entries[Len(edited_entries)].RawIndex \in Labels(raw_entries)

\* the lines of a directory that match the grammar, without their trailing
\* column, each once, in the order they are first seen
FirstSeenLines(dir) ==
    LET lines == LinesOf(dir)
        seen == FirstSeen(lines)
    IN  [k \in 1..Cardinality(seen) |->
            WithoutTrailingColumn(
                lines[CHOOSE p \in seen : Cardinality({q \in seen : q <= p}) = k])]

\* the rows parsed from the files of each directory
Parsed == [dir \in CsvDirs |->
              IF UnknownBoardIn(dir) THEN <<>> ELSE RawFrame(FirstSeenLines(dir))]

\* C19: update is a full replace of the raw table followed by a merge:
\* after every successful update the raw table is exactly the rows parsed
\* from the files read, whatever it held before, and the edited table has
\* at least as many rows as before.
C19_UpdateReplaces ==
    [][ ( op'.name = "update" /\ ret'.kind = "none" )
        => /\ raw_entries' = Parsed[op'.dir]
           /\ Len(edited_entries') >= Len(edited_entries) ]_vars

\* an update has replaced the raw table: a never-edited row merged from an
\* earlier import references a raw index that now holds another line
C19_Witness ==
    /\ op.name = "update"
    /\ ret.kind = "none"
    /\ raw_entries = Parsed[op.dir]
    /\ \E p \in Positions(edited_entries) :
           /\ edited_entries[p].Edited = " "
           /\ edited_entries[p].RawIndex \in Labels(raw_entries)
           /\ loc(raw_entries, edited_entries[p].RawIndex).Name
                  # edited_entries[p].Name

\* C20: write-back of an entry: for an identity in the edited table,
\* self[index] = value updates that row alone (match, team, name,
\* start time, comments and data from the entry), sets its Edited to a
\* non-blank time and leaves every other row and the raw table unchanged;
\* for an identity not in the table it raises IndexError and changes
\* nothing.
C20_WriteBack ==
    [][ op'.name = "__setitem__" =>
        IF op'.index \in Labels(edited_entries)
        THEN /\ ret'.kind = "none"
             /\ raw_entries' = raw_entries
             /\ Len(edited_entries') = Len(edited_entries)
             /\ \A p \in Positions(edited_entries) :
                    IF edited_entries[p].index = op'.index
                    THEN /\ edited_entries'[p].index = op'.index
                         /\ edited_entries'[p].Match = op'.value.Match
                         /\ edited_entries'[p].Team = op'.value.Team
                         /\ edited_entries'[p].Name = op'.value.Name
                         /\ edited_entries'[p].StartTime = op'.value.StartTime
                         /\ edited_entries'[p].Comments = op'.value.Comments
                         /\ edited_entries'[p].Data = op'.value.Data
                         /\ edited_entries'[p].Edited \notin {"", " "}
                         /\ edited_entries'[p].Board = edited_entries[p].Board
                         /\ edited_entries'[p].RawIndex = edited_entries[p].RawIndex
                    ELSE edited_entries'[p] = edited_entries[p]
        ELSE /\ ret'.kind = "IndexError"
             /\ raw_entries' = raw_entries
             /\ edited_entries' = edited_entries ]_vars

\* an entry has been written back to the row of identity 1, the only row
\* of the table, at position 0
C20_Witness ==
    /\ op.name = "__setitem__"
    /\ ret.kind = "none"
    /\ op.index = 1
    /\ Len(edited_entries) = 1
    /\ edited_entries[1].index = 1
    /\ edited_entries[1].Name = op.value.Name
    /\ edited_entries[1].Edited = display_time(Now)

\* the row of the view is the row the edited table holds under that identity
ViewRowCurrent(df, view_row) ==
    /\ view_row.index \in Labels(df)
    /\ view_row.Match = loc(df, view_row.index).Match
    /\ view_row.Team = loc(df, view_row.index).Team
    /\ view_row.Name = loc(df, view_row.index).Name

\* C21: identities returned by filter re-look-up the same row: after any
\* sequence of removals, for every row that filter returns with identity i
\* and that holds a board name and data,
\* entry_at(i) returns the entry built from that row, with the Match, Team
\* and Name filter reported for i, and next and previous over that view
\* return the entry of the row that holds the selected identity.
C21_FilterIdentityLookup ==
    /\ op.name = "entry_at" =>
           \A p \in 1..Len(filtered_table) :
               ( /\ filtered_table[p].index = op.index
                 /\ ViewRowCurrent(edited_data, filtered_table[p])
                 /\ Buildable(loc(edited_data, op.index)) )
               => /\ ret.kind = "entry"
                  /\ ret.entry = Entry(loc(edited_data, op.index))
                  /\ ret.entry.Match = filtered_table[p].Match
                  /\ ret.entry.Team = filtered_table[p].Team
                  /\ ret.entry.Name = filtered_table[p].Name
    /\ ( /\ op.name \in {"next", "previous"}
         /\ filtered_table # <<>>
         /\ \A p \in 1..Len(filtered_table) :
                /\ ViewRowCurrent(edited_data, filtered_table[p])
                /\ Buildable(loc(edited_data, filtered_table[p].index))
         /\ \E p \in 1..Len(filtered_table) :
                filtered_table[p].index = op.current_index )
       => LET L == Identities(filtered_table)
              selected == L[((ListIndex(L, op.current_index) + op.increment_by)
                             % Len(L)) + 1]
          IN  /\ ret.kind = "entry"
              /\ ret.entry = Entry(loc(edited_data, selected))

\* some row of the raw table holds the fields of the entry
LineStillThere(raw, entry) ==
    \E p \in Positions(raw) : Entry(raw[p]) = entry

\* C22: the raw counterpart of an edited row stays the same across
\* re-imports: after any sequence of updates over changing files, looking
\* up a never-edited row that merge created from a raw line returns as raw
\* entry the row parsed from that line, or none when the line is gone,
\* never the row of another line.
C22_RawCounterpart ==
    ( /\ op.name = "__getitem__"
      /\ ret.kind = "item"
      /\ ret.last_edit_time = " " )
    => IF LineStillThere(raw_entries, ret.edited)
       THEN ret.has_raw /\ ret.raw = ret.edited
       ELSE ~ret.has_raw

====
